---------------------------- MODULE Spec2Model ----------------------------
(***************************************************************************)
(* Model of src/os.py: the SJF (preemptive, shortest remaining time first) *)
(* scheduling simulator.  The state is the SJFApp object's fields that the *)
(* scheduler and the metrics calculation touch, the local variables of     *)
(* executeSJFAlgorithm while it runs, and the position of the running      *)
(* handler (pc).  The Tk event loop is pc = "idle": a button handler runs   *)
(* to completion before the next event is taken.                           *)
(***************************************************************************)
EXTENDS Integers, Sequences, FiniteSets, TLC

\* Bounds of the model (not program constants).
MaxProcs == 2
MaxArrival == 2
MaxBurst == 3

\* createProcessInputTable accepts 1..10 processes.
MinCount == 1
MaxCount == 10

\* The sentinel the code uses for "not set yet" and for "no process on the CPU".
Unset == -1

VARIABLES
    hasProcessInputs,   \* hasattr(self, 'processInputs')
    processInputs,      \* self.processInputs: one element per row of entry widgets
    entriesAlive,       \* the entry widgets of processInputs have not been destroyed
    processes,          \* self.processes: sequence of process records
    ganttData,          \* self.ganttData: sequence of [pid, start, end]
    avgWaiting,         \* self.avgWaiting (<<>> while the attribute does not exist)
    avgTurnaround,      \* self.avgTurnaround
    avgResponse,        \* self.avgResponse
    resultsShown,       \* resultsFrame has been packed by displayResults
    lastError,          \* what the last handler reported ("" when nothing)
    currentTime,        \* locals of executeSJFAlgorithm
    completedProcesses,
    currentProcessId,
    totalProcesses,
    arrivalTime,        \* locals of runSimulation: the texts read from the row at hand
    burstTime,          \* ("" while no row is at hand)
    pc,                 \* position of the running handler
    firstRun            \* history: the results of the first completed run (RepeatSpec only)

vars == <<hasProcessInputs, processInputs, entriesAlive, processes, ganttData,
          avgWaiting, avgTurnaround, avgResponse, resultsShown, lastError,
          currentTime, completedProcesses, currentProcessId, totalProcesses,
          arrivalTime, burstTime, pc, firstRun>>

gui == <<hasProcessInputs, processInputs, entriesAlive>>
avgs == <<avgWaiting, avgTurnaround, avgResponse>>
locals == <<currentTime, completedProcesses, currentProcessId, totalProcesses>>
row == <<arrivalTime, burstTime>>

-----------------------------------------------------------------------------
\* Texts an entry widget can hold: validateNumberInput lets only digits or "" in.

DigitTexts(n) == {ToString(k) : k \in 0..n}

\* int(text) of a digit text.
ParseInt(text) == CHOOSE k \in 0..(MaxCount + MaxArrival + MaxBurst + 2) : ToString(k) = text

CountTexts == {""} \cup DigitTexts(MaxProcs) \cup {ToString(MaxCount + 1)}
ArrivalTexts == {""} \cup DigitTexts(MaxArrival)
BurstTexts == {""} \cup DigitTexts(MaxBurst)

\* The record runSimulation appends for row i (0-based index i-1, pid = i).
NewProcess(i, arrival, burst) ==
    [pid |-> i, arrival |-> arrival, burst |-> burst,
     remaining |-> burst, start_time |-> Unset, finish_time |-> Unset,
     waiting |-> 0, response |-> Unset]

-----------------------------------------------------------------------------
Init ==
    /\ hasProcessInputs = FALSE
    /\ processInputs = <<>>
    /\ entriesAlive = FALSE
    /\ processes = <<>>
    /\ ganttData = <<>>
    /\ avgWaiting = <<>>
    /\ avgTurnaround = <<>>
    /\ avgResponse = <<>>
    /\ resultsShown = FALSE
    /\ lastError = ""
    /\ currentTime = 0
    /\ completedProcesses = 0
    /\ currentProcessId = Unset
    /\ totalProcesses = 0
    /\ arrivalTime = ""
    /\ burstTime = ""
    /\ pc = "idle"
    /\ firstRun = <<>>

-----------------------------------------------------------------------------
\* "Create Process Table": the old widgets are destroyed first; a count that is
\* empty or outside 1..10 reports an error and leaves self.processInputs as it was.
createProcessInputTable ==
    /\ pc = "idle"
    /\ \E text \in CountTexts :
         IF text = "" \/ ~(MinCount <= ParseInt(text) /\ ParseInt(text) <= MaxCount)
         THEN /\ lastError' = "Please enter a valid number of processes (1-10)."
              /\ entriesAlive' = FALSE
              /\ UNCHANGED <<hasProcessInputs, processInputs>>
         ELSE /\ lastError' = ""
              /\ hasProcessInputs' = TRUE
              /\ processInputs' = [i \in 1..ParseInt(text) |-> i]
              /\ entriesAlive' = TRUE
    /\ UNCHANGED <<processes, ganttData, avgs, resultsShown, locals, pc, row, firstRun>>

\* "Run Simulation", up to the loop over the rows (lines 98-107).
runSimulation ==
    /\ pc = "idle"
    /\ IF ~hasProcessInputs \/ Len(processInputs) = 0
       THEN /\ lastError' = "Please create the process table first."
            /\ UNCHANGED <<processes, pc>>
       ELSE /\ lastError' = ""
            /\ processes' = <<>>
            /\ pc' = "read"
    /\ UNCHANGED <<gui, ganttData, avgs, resultsShown, locals, row, firstRun>>

\* The texts of the row that made process p.
TextsOf(p) == <<ToString(p.arrival), ToString(p.burst)>>

\* The texts row i's entries may hold when runSimulation reads them: anything the
\* validation of the entries lets in.  Where the first run is on record (RepeatSpec)
\* the rows of that run still hold what was typed for it.
RowTexts(i) ==
    IF firstRun # <<>> /\ i <= Len(firstRun.processes)
    THEN {TextsOf(firstRun.processes[i])}
    ELSE ArrivalTexts \X BurstTexts

\* The head of the loop over the rows (lines 108-110): the loop ends after the
\* last row, or the texts of the next row's entries are read.  Reading a destroyed
\* entry raises TclError, which no except clause of the handler catches.
readRow ==
    /\ pc = "read"
    /\ LET i == Len(processes) + 1 IN
       IF i > Len(processInputs)
       THEN /\ pc' = "sjf"
            /\ UNCHANGED <<lastError, row>>
       ELSE IF ~entriesAlive
       THEN /\ lastError' = "TclError"
            /\ pc' = "idle"
            /\ UNCHANGED row
       ELSE \E texts \in RowTexts(i) :
              /\ arrivalTime' = texts[1]
              /\ burstTime' = texts[2]
              /\ pc' = "check"
              /\ UNCHANGED lastError
    /\ UNCHANGED <<gui, processes, ganttData, avgs, resultsShown, locals, firstRun>>

\* Faulty variant of RowIsValid: a burst of 0 passes.
RowIsValid_ZeroBurst(arrivalText, burstText) ==
    ParseInt(arrivalText) >= 0 /\ ParseInt(burstText) >= 0

\* Lines 117-121 for texts that are not empty: int() of both, and no ValueError.
RowIsValid(arrivalText, burstText) ==
    ~(ParseInt(arrivalText) < 0 \/ ParseInt(burstText) <= 0)

\* The rest of the iteration (lines 112-124): an empty text or an invalid value
\* ends the handler with an error, a valid row is appended to self.processes.
checkRow ==
    /\ pc = "check"
    /\ IF arrivalTime = "" \/ burstTime = ""
       THEN /\ lastError' = "Please fill in all arrival and burst times."
            /\ pc' = "idle"
            /\ UNCHANGED processes
       ELSE IF ~RowIsValid(arrivalTime, burstTime)
       THEN /\ lastError' = "Invalid input values!"
            /\ pc' = "idle"
            /\ UNCHANGED processes
       ELSE /\ processes' = Append(processes,
                    NewProcess(Len(processes) + 1,
                               ParseInt(arrivalTime), ParseInt(burstTime)))
            /\ pc' = "read"
            /\ UNCHANGED lastError
    /\ arrivalTime' = ""
    /\ burstTime' = ""
    /\ UNCHANGED <<gui, ganttData, avgs, resultsShown, locals, firstRun>>

\* Faulty variant of executeSJFAlgorithm: self.ganttData is not reset.
executeSJFAlgorithm_KeepsTimeline ==
    /\ pc = "sjf"
    /\ currentTime' = 0
    /\ completedProcesses' = 0
    /\ currentProcessId' = Unset
    /\ totalProcesses' = Len(processes)
    /\ pc' = "loop"
    /\ UNCHANGED <<gui, processes, ganttData, avgs, resultsShown, lastError, row, firstRun>>

\* Entry of executeSJFAlgorithm (lines 136-140).
executeSJFAlgorithm ==
    /\ pc = "sjf"
    /\ currentTime' = 0
    /\ completedProcesses' = 0
    /\ currentProcessId' = Unset
    /\ totalProcesses' = Len(processes)
    /\ ganttData' = <<>>
    /\ pc' = "loop"
    /\ UNCHANGED <<gui, processes, avgs, resultsShown, lastError, row, firstRun>>

-----------------------------------------------------------------------------
\* The pieces of one iteration of the while loop (lines 142-180).

\* Faulty variant of IsReady: a process counts as ready only after its arrival tick.
IsReady_Late(p, t) == p.arrival < t /\ p.remaining > 0

\* The filter of readyProcesses (line 145).
IsReady(p, t) == p.arrival <= t /\ p.remaining > 0

\* readyProcesses (lines 144-145): in process-list order.
ReadyProcesses(ps, t) ==
    LET Test(p) == IsReady(p, t) IN SelectSeq(ps, Test)

\* Faulty variants of KeepBest: the comparison reversed, and ties going to the later
\* element.
KeepBest_Longest(best, p) == IF p.remaining > best.remaining THEN p ELSE best

KeepBest_LastOfTies(best, p) == IF p.remaining <= best.remaining THEN p ELSE best

\* Python's min(iterable, key=...): the first element is the candidate, and a later
\* element replaces it only when its key is strictly smaller.
KeepBest(best, p) == IF p.remaining < best.remaining THEN p ELSE best

RECURSIVE MinFrom(_, _)
MinFrom(best, rest) ==
    IF rest = <<>> THEN best
    ELSE MinFrom(KeepBest(best, Head(rest)), Tail(rest))

\* shortestJob (line 152), for a non-empty ready list.
ShortestJob(ready) == MinFrom(Head(ready), Tail(ready))

\* Faulty variant of ClosePrevious: the preempted segment closed one tick late.
ClosePrevious_OffByOne(gantt, ps, cur, t) ==
    IF cur # Unset /\ ps[cur].remaining > 0
    THEN [gantt EXCEPT ![Len(gantt)].end = t + 1]
    ELSE gantt

\* Lines 156-157: the previous process is still unfinished, so its segment (the
\* last one) gets its end set to the clock.
ClosePrevious(gantt, ps, cur, t) ==
    IF cur # Unset /\ ps[cur].remaining > 0
    THEN [gantt EXCEPT ![Len(gantt)].end = t]
    ELSE gantt

\* Line 167: the segment appended when another process takes the CPU.
NewSegment(pid, t) == [pid |-> pid, start |-> t, end |-> t + 1]

\* Faulty variant of ExtendLast: the running segment is not extended.
ExtendLast_Forgotten(gantt) == gantt

\* Line 170: the running process continues, its segment grows by one tick.
ExtendLast(gantt) == [gantt EXCEPT ![Len(gantt)].end = @ + 1]

\* Faulty variant of TimelineAfter: every tick opens a segment of its own.
TimelineAfter_AlwaysAppend(gantt, ps, cur, job, t) ==
    Append(ClosePrevious(gantt, ps, cur, t), NewSegment(job.pid, t))

\* Lines 154-170: the timeline after the selection of job.
TimelineAfter(gantt, ps, cur, job, t) ==
    IF job.pid # cur
    THEN Append(ClosePrevious(gantt, ps, cur, t), NewSegment(job.pid, t))
    ELSE ExtendLast(gantt)

\* Faulty variant of MarkFirstRun: start_time is overwritten whenever the process
\* takes the CPU.
MarkFirstRun_Overwrites(job, t) ==
    [job EXCEPT !.response = IF @ = Unset THEN t - job.arrival ELSE @,
                !.start_time = t]

\* Lines 161-166: response and start_time are recorded when the process takes the
\* CPU and has none yet.
MarkFirstRun(job, t) ==
    [job EXCEPT !.response = IF @ = Unset THEN t - job.arrival ELSE @,
                !.start_time = IF @ = Unset THEN t ELSE @]

\* Faulty variants of JobAfter: the decrement left out when another process takes
\* the CPU, finish_time taken before the clock advances, and finish_time never set.
JobAfter_NoDecrementOnSwitch(job, cur, t) ==
    LET ran == IF job.pid # cur
               THEN MarkFirstRun(job, t)
               ELSE [job EXCEPT !.remaining = @ - 1]
    IN IF ran.remaining = 0 THEN [ran EXCEPT !.finish_time = t + 1] ELSE ran

JobAfter_FinishBeforeTick(job, cur, t) ==
    LET marked == IF job.pid # cur THEN MarkFirstRun(job, t) ELSE job
        ran == [marked EXCEPT !.remaining = @ - 1]
    IN IF ran.remaining = 0 THEN [ran EXCEPT !.finish_time = t] ELSE ran

JobAfter_NoFinish(job, cur, t) ==
    LET marked == IF job.pid # cur THEN MarkFirstRun(job, t) ELSE job
    IN [marked EXCEPT !.remaining = @ - 1]

\* Lines 154-180: the selected process's record after the tick that starts at t.
JobAfter(job, cur, t) ==
    LET marked == IF job.pid # cur THEN MarkFirstRun(job, t) ELSE job
        ran == [marked EXCEPT !.remaining = @ - 1]
    IN IF ran.remaining = 0 THEN [ran EXCEPT !.finish_time = t + 1] ELSE ran

\* The while condition (line 142).
LoopRuns == completedProcesses < totalProcesses

\* Lines 147-149: nothing is ready, the clock advances.
idleTick ==
    /\ pc = "loop"
    /\ LoopRuns
    /\ ReadyProcesses(processes, currentTime) = <<>>
    /\ currentTime' = currentTime + 1
    /\ UNCHANGED <<gui, processes, ganttData, avgs, resultsShown, lastError,
                   completedProcesses, currentProcessId, totalProcesses, pc, row, firstRun>>

\* Lines 151-180: the shortest ready job runs for one tick.
execTick ==
    /\ pc = "loop"
    /\ LoopRuns
    /\ ReadyProcesses(processes, currentTime) # <<>>
    /\ LET shortestJob == ShortestJob(ReadyProcesses(processes, currentTime))
           after == JobAfter(shortestJob, currentProcessId, currentTime)
       IN /\ ganttData' = TimelineAfter(ganttData, processes, currentProcessId,
                                         shortestJob, currentTime)
          /\ processes' = [processes EXCEPT ![shortestJob.pid] = after]
          /\ currentTime' = currentTime + 1
          /\ IF after.remaining = 0
             THEN /\ completedProcesses' = completedProcesses + 1
                  /\ currentProcessId' = Unset
             ELSE /\ completedProcesses' = completedProcesses
                  /\ currentProcessId' = shortestJob.pid
    /\ UNCHANGED <<gui, avgs, resultsShown, lastError, totalProcesses, pc, row, firstRun>>

\* The loop (lines 142-180) run to its exit from a process list, a timeline, a
\* clock, a counter of completed processes and a current pid: what it leaves in
\* the process list and in the timeline.
RECURSIVE LoopFrom(_, _, _, _, _)
LoopFrom(ps, gantt, t, done, cur) ==
    IF done >= Len(ps) THEN [processes |-> ps, ganttData |-> gantt]
    ELSE LET ready == ReadyProcesses(ps, t) IN
         IF ready = <<>> THEN LoopFrom(ps, gantt, t + 1, done, cur)
         ELSE LET shortestJob == ShortestJob(ready)
                  after == JobAfter(shortestJob, cur, t)
              IN LoopFrom([ps EXCEPT ![shortestJob.pid] = after],
                          TimelineAfter(gantt, ps, cur, shortestJob, t),
                          t + 1,
                          IF after.remaining = 0 THEN done + 1 ELSE done,
                          IF after.remaining = 0 THEN Unset ELSE shortestJob.pid)

\* The while condition fails: executeSJFAlgorithm returns and its locals are gone.
whileExit ==
    /\ pc = "loop"
    /\ ~LoopRuns
    /\ currentTime' = 0
    /\ completedProcesses' = 0
    /\ currentProcessId' = Unset
    /\ totalProcesses' = 0
    /\ pc' = "metrics"
    /\ UNCHANGED <<gui, processes, ganttData, avgs, resultsShown, lastError, row, firstRun>>

-----------------------------------------------------------------------------
\* calculatePerformanceMetrics (lines 182-195).

RECURSIVE GCD(_, _)
GCD(a, b) == IF b = 0 THEN a ELSE GCD(b, a % b)

Abs(x) == IF x < 0 THEN -x ELSE x

\* total / n as Python's true division of two small integers computes it: two
\* quotients are the same float exactly when they are the same rational, which is
\* kept here in lowest terms <<numerator, denominator>>.
Average(total, n) ==
    LET g == GCD(Abs(total), n) IN <<total \div g, n \div g>>

\* Faulty variant of WithMetrics: turnaround measured from start_time.
WithMetrics_FromStart(p) ==
    LET turnaround == p.finish_time - p.start_time IN
    [pid |-> p.pid, arrival |-> p.arrival, burst |-> p.burst,
     remaining |-> p.remaining, start_time |-> p.start_time,
     finish_time |-> p.finish_time, response |-> p.response,
     turnaround |-> turnaround, waiting |-> turnaround - p.burst]

\* Lines 186-187 for one process: the dict gains the key 'turnaround'.
WithMetrics(p) ==
    LET turnaround == p.finish_time - p.arrival IN
    [pid |-> p.pid, arrival |-> p.arrival, burst |-> p.burst,
     remaining |-> p.remaining, start_time |-> p.start_time,
     finish_time |-> p.finish_time, response |-> p.response,
     turnaround |-> turnaround, waiting |-> turnaround - p.burst]

RECURSIVE SumOf(_, _)
SumOf(ps, field) ==
    IF ps = <<>> THEN 0 ELSE Head(ps)[field] + SumOf(Tail(ps), field)

calculatePerformanceMetrics ==
    /\ pc = "metrics"
    /\ LET after == [i \in 1..Len(processes) |-> WithMetrics(processes[i])] IN
       /\ processes' = after
       /\ avgWaiting' = Average(SumOf(after, "waiting"), Len(processes))
       /\ avgTurnaround' = Average(SumOf(after, "turnaround"), Len(processes))
       /\ avgResponse' = Average(SumOf(after, "response"), Len(processes))
    /\ pc' = "display"
    /\ UNCHANGED <<gui, ganttData, resultsShown, lastError, locals, row, firstRun>>

\* displayResults (lines 197-236): the results frame is filled and packed.
ShowResults ==
    /\ pc = "display"
    /\ resultsShown' = TRUE
    /\ pc' = "idle"
    /\ UNCHANGED <<gui, processes, ganttData, avgs, lastError, locals, row>>

displayResults == ShowResults /\ UNCHANGED firstRun

\* displayResults, with what the first run displayed put on record.
displayResultsRecorded ==
    /\ ShowResults
    /\ firstRun' = IF firstRun = <<>>
                   THEN [processes |-> processes, ganttData |-> ganttData,
                         avgWaiting |-> avgWaiting, avgTurnaround |-> avgTurnaround,
                         avgResponse |-> avgResponse]
                   ELSE firstRun

-----------------------------------------------------------------------------
Next ==
    \/ createProcessInputTable
    \/ runSimulation
    \/ readRow
    \/ checkRow
    \/ executeSJFAlgorithm
    \/ idleTick
    \/ execTick
    \/ whileExit
    \/ calculatePerformanceMetrics
    \/ displayResults

Spec == Init /\ [][Next]_vars

\* The application up to the first display of results: the same handlers, observed
\* until the first simulation has been shown.
FirstRunNext ==
    \/ (~resultsShown /\ createProcessInputTable)
    \/ (~resultsShown /\ runSimulation)
    \/ readRow
    \/ checkRow
    \/ executeSJFAlgorithm
    \/ idleTick
    \/ execTick
    \/ whileExit
    \/ calculatePerformanceMetrics
    \/ displayResults

FirstRunSpec == Init /\ [][FirstRunNext]_vars

\* The application run again and again on the input of its first run: once results
\* are shown the table is left as it is and "Run Simulation" is pressed again.
RepeatNext ==
    \/ (~resultsShown /\ createProcessInputTable)
    \/ runSimulation
    \/ readRow
    \/ checkRow
    \/ executeSJFAlgorithm
    \/ idleTick
    \/ execTick
    \/ whileExit
    \/ calculatePerformanceMetrics
    \/ displayResultsRecorded

RepeatSpec == Init /\ [][RepeatNext]_vars

\* The application observed across runs: "Run Simulation" is pressed again only
\* while self.processes holds at most MinCount records, so the simulations that
\* follow a displayed one follow one of the smallest batch.
RerunNext ==
    \/ createProcessInputTable
    \/ (Len(processes) <= MinCount /\ runSimulation)
    \/ readRow
    \/ checkRow
    \/ executeSJFAlgorithm
    \/ idleTick
    \/ execTick
    \/ whileExit
    \/ calculatePerformanceMetrics
    \/ displayResults

RerunSpec == Init /\ [][RerunNext]_vars

\* The handler runs to completion: once executeSJFAlgorithm is in its loop, the
\* interpreter takes the loop's next step.
LoopStep == idleTick \/ execTick \/ whileExit

FirstRunLive == FirstRunSpec /\ WF_vars(LoopStep)

-----------------------------------------------------------------------------
\* Vocabulary of the properties.

Pids == 1..Len(processes)

InScheduler == pc = "loop"
SchedulerDone == pc = "metrics"

RECURSIVE MaxArrivalOf(_)
MaxArrivalOf(ps) ==
    IF ps = <<>> THEN 0
    ELSE LET m == MaxArrivalOf(Tail(ps)) IN
         IF Head(ps).arrival > m THEN Head(ps).arrival ELSE m

RECURSIVE SumBurst(_)
SumBurst(ps) == IF ps = <<>> THEN 0 ELSE Head(ps).burst + SumBurst(Tail(ps))

ClockBound == MaxArrivalOf(processes) + SumBurst(processes)

\* What executeSJFAlgorithm leaves behind: all work done, every finish_time set, a
\* timeline that is not empty.
C1_Postcondition ==
    /\ \A i \in Pids : processes[i].remaining = 0 /\ processes[i].finish_time # Unset
    /\ ganttData # <<>>

\* C1: for every valid batch executeSJFAlgorithm terminates, and when it has, every
\* process has remaining = 0 and a finish_time that is set, and the timeline is
\* not empty.
C1_TerminatesComplete ==
    /\ InScheduler ~> SchedulerDone
    /\ [](SchedulerDone => C1_Postcondition)

\* A batch of several processes with an idle gap and a preemption has completed.
C1_Witness ==
    /\ SchedulerDone
    /\ Len(processes) >= 2
    /\ Len(ganttData) > Len(processes)
    /\ ganttData[1].start > 0

\* C2: the simulated clock never exceeds max(arrival) + sum(burst), and neither does
\* any finish_time (the final clock is the largest of them).
C2_ClockBounded ==
    /\ InScheduler => currentTime <= ClockBound
    /\ (InScheduler \/ SchedulerDone) =>
         \A i \in Pids : processes[i].finish_time <= ClockBound

\* The bound is attained: a batch of two that starts after an idle gap has finished.
C2_Witness ==
    /\ SchedulerDone
    /\ Len(processes) >= 2
    /\ MaxArrivalOf(processes) > 0
    /\ \E i \in Pids : processes[i].finish_time = ClockBound

\* Process i executes in this step of the loop: the step puts it on the timeline's
\* last segment for the tick that starts at currentTime, or consumes one unit of
\* its remaining time.
RunsOn(i) ==
    \/ processes'[i].remaining < processes[i].remaining
    \/ /\ ganttData' # ganttData
       /\ ganttData'[Len(ganttData')].pid = i

\* Process j is in the ready set at the current clock.
ReadyNow(j) == processes[j].arrival <= currentTime /\ processes[j].remaining > 0

\* C3: at every tick at which a process executes, that process is in the ready set
\* (arrival <= t and remaining > 0) and its remaining time is the minimum over the
\* ready set at t.
C3_RunsShortestReady ==
    [][InScheduler =>
         \A i \in Pids : RunsOn(i) =>
             /\ ReadyNow(i)
             /\ \A j \in Pids :
                  ReadyNow(j) => processes[i].remaining <= processes[j].remaining]_vars

\* Process i has run while process j, ready since before i started and with more
\* work left, has not run at all.
C3_Witness ==
    /\ InScheduler
    /\ \E i, j \in Pids :
         /\ i # j
         /\ processes[i].remaining < processes[i].burst
         /\ processes[j].remaining = processes[j].burst
         /\ processes[j].burst > processes[i].burst
         /\ processes[i].start_time # Unset
         /\ processes[j].arrival <= processes[i].start_time

\* C4: when several ready processes share the minimum remaining time, the one that
\* is earliest in the list (smallest pid) executes, also when a later-listed one
\* with the same remaining time was running on the previous tick.
C4_TieBreakEarliest ==
    [][InScheduler =>
         \A i \in Pids : RunsOn(i) =>
             \A j \in Pids :
                 (ReadyNow(j) /\ processes[j].remaining = processes[i].remaining)
                     => i <= j]_vars

\* The later-listed process j was running, and at the start of the last segment the
\* earlier-listed i, with the same remaining time, took the CPU from it.
C4_Witness ==
    /\ InScheduler
    /\ Len(ganttData) >= 2
    /\ LET n == Len(ganttData)
           i == ganttData[n].pid
           j == ganttData[n - 1].pid
       IN /\ i < j
          /\ ganttData[n].start = ganttData[n - 1].end
          /\ processes[j].remaining > 0
          /\ processes[j].remaining =
                processes[i].remaining + (ganttData[n].end - ganttData[n].start)

\* The executeSJFAlgorithm call is under way or has returned and its results are
\* being processed.
RunStarted == pc \in {"loop", "metrics", "display"}

\* C5: in every state reached by executeSJFAlgorithm the timeline is well formed:
\* every segment has end > start, starts are non-decreasing, and each segment ends
\* no later than the next one starts.
C5_TimelineWellFormed ==
    RunStarted =>
        /\ \A n \in 1..Len(ganttData) : ganttData[n].end > ganttData[n].start
        /\ \A n \in 1..(Len(ganttData) - 1) :
             /\ ganttData[n].start <= ganttData[n + 1].start
             /\ ganttData[n].end <= ganttData[n + 1].start

\* A timeline with a segment longer than a tick and a segment that starts after a
\* gap.
C5_Witness ==
    /\ RunStarted
    /\ Len(ganttData) >= 2
    /\ \E n \in 1..Len(ganttData) : ganttData[n].end > ganttData[n].start + 1
    /\ \E n \in 1..(Len(ganttData) - 1) : ganttData[n].end < ganttData[n + 1].start

\* Total length of the segments of gantt that carry pid.
RECURSIVE SegmentTime(_, _)
SegmentTime(gantt, pid) ==
    IF gantt = <<>> THEN 0
    ELSE (IF Head(gantt).pid = pid THEN Head(gantt).end - Head(gantt).start ELSE 0)
         + SegmentTime(Tail(gantt), pid)

\* C6: at every state of the run the segments of a process add up to
\* burst - remaining; once executeSJFAlgorithm has finished they add up to burst.
C6_SegmentsAddUp ==
    /\ RunStarted =>
         \A i \in Pids :
             SegmentTime(ganttData, processes[i].pid)
                 = processes[i].burst - processes[i].remaining
    /\ SchedulerDone =>
         \A i \in Pids : SegmentTime(ganttData, processes[i].pid) = processes[i].burst

\* A finished run in which some process ran in two separate segments.
C6_Witness ==
    /\ SchedulerDone
    /\ \E m, n \in 1..Len(ganttData) :
         /\ m < n
         /\ ganttData[m].pid = ganttData[n].pid
         /\ ganttData[m].end - ganttData[m].start >= 1
         /\ ganttData[n].end - ganttData[n].start >= 2

\* The metrics calculation has run on the scheduler's results.
MetricsDone == pc = "display"

\* C7: after the scheduler and the metrics calculation, every process has
\* finish_time > arrival, waiting >= 0 and turnaround >= burst.
C7_MetricsSane ==
    MetricsDone =>
        \A i \in Pids :
            /\ processes[i].finish_time > processes[i].arrival
            /\ processes[i].waiting >= 0
            /\ processes[i].turnaround >= processes[i].burst

\* Metrics of a batch in which one process did not wait and another one did.
C7_Witness ==
    /\ MetricsDone
    /\ \E i, j \in Pids :
         /\ processes[i].waiting = 0
         /\ processes[i].turnaround = processes[i].burst
         /\ processes[j].waiting > 0
         /\ processes[j].arrival > 0

\* The fields of a process record that calculatePerformanceMetrics must leave alone.
KeptFields == {"pid", "arrival", "burst", "remaining", "start_time", "finish_time",
               "response"}

\* C9: calculatePerformanceMetrics sets turnaround = finish_time - arrival and
\* waiting = turnaround - burst for every process and leaves pid, arrival, burst,
\* remaining, start_time, finish_time, response and the timeline as they were.
C9_MetricsFrame ==
    [][SchedulerDone =>
         /\ Len(processes') = Len(processes)
         /\ \A i \in Pids :
              /\ processes'[i].turnaround
                    = processes[i].finish_time - processes[i].arrival
              /\ processes'[i].waiting
                    = processes'[i].turnaround - processes[i].burst
              /\ \A f \in KeptFields : processes'[i][f] = processes[i][f]
         /\ ganttData' = ganttData]_vars

\* The calculation has run on a batch in which it changed a waiting time.
C9_Witness ==
    /\ MetricsDone
    /\ Len(processes) >= 2
    /\ \E i \in Pids : processes[i].waiting > 0 /\ processes[i].response > 0

\* At the current clock an unfinished process holds the CPU and process q arrives
\* with a burst strictly below the remaining time of every other ready process.
ShorterArrival(q) ==
    /\ currentProcessId # Unset
    /\ processes[currentProcessId].remaining > 0
    /\ q # currentProcessId
    /\ processes[q].arrival = currentTime
    /\ processes[q].remaining > 0
    /\ \A j \in Pids \ {q} : ReadyNow(j) => processes[q].burst < processes[j].remaining

\* C10: if an unfinished process was executing at tick t-1 and a process arrives at
\* t whose burst is strictly smaller than the remaining time of every other ready
\* process, then the running process's segment ends at t, the arriving process
\* executes at tick t in a new segment that starts at t, and its response is 0.
C10_PreemptionOnShorterArrival ==
    [][(InScheduler /\ LoopRuns) =>
         \A q \in Pids : ShorterArrival(q) =>
             LET n == Len(ganttData) IN
             /\ Len(ganttData') = n + 1
             /\ ganttData'[n].pid = currentProcessId
             /\ ganttData'[n].end = currentTime
             /\ ganttData'[n + 1] = [pid |-> q, start |-> currentTime,
                                     end |-> currentTime + 1]
             /\ processes'[q].remaining = processes[q].burst - 1
             /\ processes'[q].response = 0
             /\ processes'[currentProcessId] = processes[currentProcessId]]_vars

\* The last segment belongs to a process that arrived at its start with a burst
\* below what the process of the segment before, which ran up to that instant
\* and is not finished, had left.
C10_Witness ==
    /\ InScheduler
    /\ Len(ganttData) >= 2
    /\ LET n == Len(ganttData)
           q == ganttData[n].pid
           r == ganttData[n - 1].pid
       IN /\ q # r
          /\ ganttData[n - 1].end = ganttData[n].start
          /\ processes[q].arrival = ganttData[n].start
          /\ processes[q].response = 0
          /\ processes[r].remaining > 0
          /\ processes[q].burst < processes[r].remaining

\* A later run has been given the input list of the first run.
SameInputAsFirstRun ==
    /\ firstRun # <<>>
    /\ Len(processes) = Len(firstRun.processes)
    /\ \A i \in Pids :
         /\ processes[i].pid = firstRun.processes[i].pid
         /\ processes[i].arrival = firstRun.processes[i].arrival
         /\ processes[i].burst = firstRun.processes[i].burst

\* C8: a second run of the scheduler and the metrics calculation on an identical
\* input list produces the same timeline and the same start, finish, response,
\* waiting and turnaround of every process (and the same averages).
C8_RepeatedRunIdentical ==
    (MetricsDone /\ SameInputAsFirstRun) =>
        /\ ganttData = firstRun.ganttData
        /\ processes = firstRun.processes
        /\ avgWaiting = firstRun.avgWaiting
        /\ avgTurnaround = firstRun.avgTurnaround
        /\ avgResponse = firstRun.avgResponse

\* A repeated run of a batch with a preemption has computed its metrics.
C8_Witness ==
    /\ MetricsDone
    /\ SameInputAsFirstRun
    /\ Len(processes) >= 2
    /\ Len(ganttData) > Len(processes)
    /\ \E i \in Pids : processes[i].waiting > 0

\* Every process of the batch has the arrival and the burst of the first one.
UniformBatch ==
    \A i \in Pids :
        /\ processes[i].arrival = processes[1].arrival
        /\ processes[i].burst = processes[1].burst

\* C11: a batch of n processes with one arrival a and one burst b gets exactly n
\* segments, one per process in input order, process i on [a + (i-1)*b, a + i*b):
\* nobody is preempted.
C11_UniformBatchInOrder ==
    (SchedulerDone /\ UniformBatch) =>
        LET a == processes[1].arrival
            b == processes[1].burst
        IN ganttData = [i \in Pids |->
                           [pid |-> i, start |-> a + (i - 1) * b, end |-> a + i * b]]

\* A finished uniform batch of several processes, each longer than a tick, that
\* arrived after time 0.
C11_Witness ==
    /\ SchedulerDone
    /\ UniformBatch
    /\ Len(processes) >= 2
    /\ processes[1].arrival > 0
    /\ processes[1].burst >= 2
    /\ Len(ganttData) = Len(processes)

\* C12: a process that executes on consecutive ticks is one segment that grows: no
\* two consecutive segments carry the same pid, and a batch of one process with
\* arrival a and burst b yields the single segment [a, a+b), finish_time = a+b,
\* waiting = 0, turnaround = b and response = 0.
C12_OneSegmentPerStretch ==
    /\ RunStarted =>
         \A n \in 1..(Len(ganttData) - 1) : ganttData[n].pid # ganttData[n + 1].pid
    /\ (SchedulerDone /\ Len(processes) = 1) =>
         /\ ganttData = <<[pid |-> 1, start |-> processes[1].arrival,
                           end |-> processes[1].arrival + processes[1].burst]>>
         /\ processes[1].finish_time = processes[1].arrival + processes[1].burst
         /\ processes[1].response = 0
    /\ (MetricsDone /\ Len(processes) = 1) =>
         /\ processes[1].waiting = 0
         /\ processes[1].turnaround = processes[1].burst

\* The metrics of a single process that arrived late and ran for several ticks.
C12_Witness ==
    /\ MetricsDone
    /\ Len(processes) = 1
    /\ processes[1].arrival > 0
    /\ processes[1].burst >= 2
    /\ Len(ganttData) = 1

\* Tick t is covered by a segment of gantt.
Covered(gantt, t) ==
    \E n \in 1..Len(gantt) : gantt[n].start <= t /\ t < gantt[n].end

\* C13: the CPU is idle exactly when the ready set is empty.  No segment reaches
\* beyond the clock; a loop step covers the tick that starts at the clock exactly
\* when some process is ready, and it never changes whether an earlier tick is
\* covered; an idle step advances the clock by 1 and changes neither the timeline
\* nor any process.
C13_IdleIffNothingReady ==
    [][(InScheduler /\ LoopRuns) =>
         /\ \A t \in 0..(currentTime - 1) :
              Covered(ganttData', t) <=> Covered(ganttData, t)
         /\ ~Covered(ganttData, currentTime)
         /\ ~Covered(ganttData', currentTime + 1)
         /\ Covered(ganttData', currentTime) <=> (\E j \in Pids : ReadyNow(j))
         /\ (~\E j \in Pids : ReadyNow(j)) =>
              /\ currentTime' = currentTime + 1
              /\ ganttData' = ganttData
              /\ processes' = processes]_vars

\* The clock has passed an idle tick that lies between two segments.
C13_Witness ==
    /\ InScheduler
    /\ Len(ganttData) >= 2
    /\ \E t \in 0..(currentTime - 1) :
         /\ ~Covered(ganttData, t)
         /\ ganttData[1].end <= t
         /\ t < ganttData[Len(ganttData)].start

\* The positions in gantt of the segments that carry pid.
SegmentsOf(gantt, pid) == {n \in 1..Len(gantt) : gantt[n].pid = pid}

\* The first and the last of a non-empty set of positions.
FirstOf(ns) == CHOOSE n \in ns : \A m \in ns : n <= m
LastOf(ns) == CHOOSE n \in ns : \A m \in ns : m <= n

\* Process i is on the timeline for the tick this loop step simulates.
TakesTick(i) ==
    /\ ganttData' # ganttData
    /\ ganttData'[Len(ganttData')].pid = i
    /\ ganttData'[Len(ganttData')].end = currentTime + 1

\* C15: start_time and response stay unset (-1) until the first tick at which the
\* process executes; at that tick start_time becomes the clock and response the
\* clock minus arrival; start_time is the start of the process's first segment,
\* response = start_time - arrival >= 0, and neither changes afterwards, preemption
\* and resumption included.
C15_StartAndResponseSetOnce ==
    /\ [](RunStarted =>
            \A i \in Pids :
                IF SegmentsOf(ganttData, i) = {}
                THEN processes[i].start_time = Unset /\ processes[i].response = Unset
                ELSE /\ processes[i].start_time
                           = ganttData[FirstOf(SegmentsOf(ganttData, i))].start
                     /\ processes[i].response
                           = processes[i].start_time - processes[i].arrival
                     /\ processes[i].response >= 0)
    /\ [][InScheduler =>
            \A i \in Pids :
                /\ (TakesTick(i) /\ processes[i].start_time = Unset) =>
                       /\ processes'[i].start_time = currentTime
                       /\ processes'[i].response = currentTime - processes[i].arrival
                /\ (~TakesTick(i) \/ processes[i].start_time # Unset) =>
                       /\ processes'[i].start_time = processes[i].start_time
                       /\ processes'[i].response = processes[i].response]_vars

\* A process that started after time 0 is back on the CPU in a second segment,
\* while the other process had to wait for its first tick.
C15_Witness ==
    /\ InScheduler
    /\ \E i, j \in Pids :
         /\ Cardinality(SegmentsOf(ganttData, i)) = 2
         /\ ganttData[Len(ganttData)].pid = i
         /\ processes[i].start_time > 0
         /\ processes[j].response = 0
         /\ i # j

\* C16: remaining starts at burst, stays within 0..burst, never increases, drops
\* by exactly 1 on exactly the ticks at which the process executes, is unchanged on
\* all other ticks, and reaches 0 exactly once.
C16_RemainingCountsDown ==
    /\ [](pc = "sjf" => \A i \in Pids : processes[i].remaining = processes[i].burst)
    /\ [](RunStarted =>
            \A i \in Pids :
                0 <= processes[i].remaining
                    /\ processes[i].remaining <= processes[i].burst)
    /\ [][RunStarted =>
            \A i \in Pids :
                /\ processes'[i].remaining =
                      IF InScheduler /\ TakesTick(i)
                      THEN processes[i].remaining - 1
                      ELSE processes[i].remaining
                /\ processes[i].remaining = 0 => processes'[i].remaining = 0]_vars

\* One process is partly done and off the CPU while the other one, which took the
\* CPU from it, has used up its burst.
C16_Witness ==
    /\ InScheduler
    /\ \E i, j \in Pids :
         /\ i # j
         /\ 0 < processes[i].remaining
         /\ processes[i].remaining < processes[i].burst
         /\ processes[j].remaining = 0
         /\ processes[j].burst >= 1
         /\ processes[j].arrival > processes[i].arrival

\* The processes whose remaining time is zero.
Finished == {i \in Pids : processes[i].remaining = 0}

\* C17: finish_time is unset (-1) exactly while remaining > 0; it is set once, at
\* the tick that brings remaining to 0, to the clock after that tick; it equals the
\* end of the last segment of that pid; and the completed counter equals the number
\* of processes with remaining 0.
C17_FinishSetOnCompletion ==
    /\ [](RunStarted =>
            \A i \in Pids :
                /\ processes[i].finish_time = Unset <=> processes[i].remaining > 0
                /\ processes[i].remaining = 0 =>
                       /\ SegmentsOf(ganttData, i) # {}
                       /\ processes[i].finish_time
                             = ganttData[LastOf(SegmentsOf(ganttData, i))].end)
    /\ [](InScheduler => completedProcesses = Cardinality(Finished))
    /\ [][RunStarted =>
            \A i \in Pids :
                /\ (processes[i].remaining > 0 /\ processes'[i].remaining = 0) =>
                       processes'[i].finish_time = currentTime'
                /\ processes[i].finish_time # Unset =>
                       processes'[i].finish_time = processes[i].finish_time]_vars

\* One process has finished in a second segment of its own while the clock has
\* moved on and the other process has finished as well.
C17_Witness ==
    /\ InScheduler
    /\ Cardinality(Finished) = 2
    /\ completedProcesses = 2
    /\ \E i \in Pids :
         /\ Cardinality(SegmentsOf(ganttData, i)) = 2
         /\ processes[i].finish_time = currentTime
    /\ \E j \in Pids : processes[j].finish_time < currentTime

\* The last segment has been closed at the clock and its process is unfinished.
UnfinishedPrevious(i) ==
    /\ ganttData # <<>>
    /\ ganttData[Len(ganttData)].pid = i
    /\ ganttData[Len(ganttData)].end = currentTime
    /\ processes[i].remaining > 0

\* C18: a process that executes at tick t and differs from the process that
\* executed at tick t - 1, while that one is unfinished, has arrival = t:
\* preemption happens only at the instant the preempting process arrives.
C18_PreemptionOnlyAtArrival ==
    [][InScheduler =>
         \A i, j \in Pids :
             (UnfinishedPrevious(i) /\ TakesTick(j) /\ j # i) =>
                 processes[j].arrival = currentTime]_vars

\* The running process has just been preempted part-way through its burst by a
\* process that arrived at the tick it took.
C18_Witness ==
    /\ InScheduler
    /\ Len(ganttData) >= 2
    /\ LET last == ganttData[Len(ganttData)]
           prev == ganttData[Len(ganttData) - 1]
       IN /\ prev.end = last.start
          /\ last.end = last.start + 1
          /\ last.end = currentTime
          /\ processes[prev.pid].remaining > 0
          /\ processes[prev.pid].remaining < processes[prev.pid].burst
          /\ processes[last.pid].arrival = last.start
          /\ last.start > 0

\* The ticks between arrival and finish at which process i is not on the timeline.
TicksNotRun(i) ==
    {t \in processes[i].arrival..(processes[i].finish_time - 1) :
        ~\E n \in SegmentsOf(ganttData, i) :
            ganttData[n].start <= t /\ t < ganttData[n].end}

\* C19: for every process, waiting equals the number of ticks in
\* [arrival, finish_time) at which the process did not execute, and all of its
\* segments lie inside [arrival, finish_time).
C19_WaitingCountsIdleTicks ==
    MetricsDone =>
        \A i \in Pids :
            /\ processes[i].waiting = Cardinality(TicksNotRun(i))
            /\ \A n \in SegmentsOf(ganttData, i) :
                   /\ processes[i].arrival <= ganttData[n].start
                   /\ ganttData[n].end <= processes[i].finish_time

\* One process waited between its two segments for the process that preempted it;
\* the other one never waited.
C19_Witness ==
    /\ MetricsDone
    /\ \E i, j \in Pids :
         /\ Cardinality(SegmentsOf(ganttData, i)) = 2
         /\ processes[i].waiting >= 1
         /\ processes[i].waiting = Cardinality(TicksNotRun(i))
         /\ processes[j].waiting = 0
         /\ processes[j].arrival > 0

\* The records runSimulation builds (lines 113-123) from the arrival and burst of
\* each row of ps, and nothing else of ps.
FreshRecords(ps) ==
    [i \in 1..Len(ps) |-> NewProcess(i, ps[i].arrival, ps[i].burst)]

\* What executeSJFAlgorithm computes from those records with its own initial
\* values (lines 136-140): a function of the arrivals and bursts alone.
ScheduleOf(ps) == LoopFrom(FreshRecords(ps), <<>>, 0, 0, Unset)

\* calculatePerformanceMetrics (lines 186-189) applied to every record of ps.
Measured(ps) == [i \in 1..Len(ps) |-> WithMetrics(ps[i])]

MeasuredScheduleOf(ps) == Measured(ScheduleOf(ps).processes)

\* C14: no cross-run persistence: in every run, a run that follows a successful
\* run included, the records handed to the scheduler, the timeline and the records
\* the scheduler leaves, and the metrics and averages computed from them depend
\* only on the arrivals and bursts of the run's own input; no segment, remaining,
\* start, finish or response value of the earlier run survives.
C14_NoCrossRunPersistence ==
    /\ pc = "sjf" => processes = FreshRecords(processes)
    /\ (InScheduler /\ currentTime = 0) =>
         (ganttData = <<>> /\ processes = FreshRecords(processes))
    /\ SchedulerDone =>
         /\ ganttData = ScheduleOf(processes).ganttData
         /\ processes = ScheduleOf(processes).processes
    /\ MetricsDone =>
         /\ ganttData = ScheduleOf(processes).ganttData
         /\ processes = MeasuredScheduleOf(processes)
         /\ avgWaiting = Average(SumOf(MeasuredScheduleOf(processes), "waiting"),
                                 Len(processes))
         /\ avgTurnaround = Average(SumOf(MeasuredScheduleOf(processes), "turnaround"),
                                    Len(processes))
         /\ avgResponse = Average(SumOf(MeasuredScheduleOf(processes), "response"),
                                  Len(processes))

\* A run after a displayed run has finished its scheduling: the averages on
\* display are still those of the earlier run, which had no waiting at all, while
\* in this run a process was preempted and waited.
C14_Witness ==
    /\ SchedulerDone
    /\ resultsShown
    /\ lastError = ""
    /\ avgWaiting = <<0, 1>>
    /\ avgTurnaround # <<>>
    /\ Len(processes) = 2
    /\ Len(ganttData) = 3
    /\ ganttData[1].pid = ganttData[3].pid

\* The process table exists, with live entries in 1 to 10 rows.
TableReady ==
    /\ hasProcessInputs
    /\ entriesAlive
    /\ MinCount <= Len(processInputs)
    /\ Len(processInputs) <= MaxCount

\* The row at hand has an empty text, or a value out of range.
RowEmpty == arrivalTime = "" \/ burstTime = ""
RowOutOfRange == ~RowEmpty /\ (ParseInt(arrivalTime) < 0 \/ ParseInt(burstTime) < 1)

\* runSimulation is reading and validating, or not running at all.
BeforeScheduler == pc \in {"idle", "read", "check"}

\* C20: the scheduler and the metrics calculation run only when the process table
\* exists with 1 to 10 rows and every row holds a non-empty arrival >= 0 and a
\* non-empty burst > 0, the records carrying pids 1..n in input order; a row that
\* is empty or invalid (and a missing table) makes runSimulation report an error
\* and return with neither of them run, the timeline and the averages computed
\* before left as they were.
C20_RunsOnlyOnValidTable ==
    /\ [](~BeforeScheduler =>
            /\ TableReady
            /\ Len(processes) = Len(processInputs)
            /\ \A i \in Pids :
                   /\ processes[i].pid = i
                   /\ processes[i].arrival >= 0
                   /\ processes[i].burst > 0)
    /\ [][BeforeScheduler =>
            /\ ganttData' = ganttData
            /\ avgs' = avgs
            /\ resultsShown' = resultsShown]_vars
    /\ [][(pc = "idle" /\ pc' # "idle") =>
            (hasProcessInputs /\ Len(processInputs) >= MinCount /\ pc' = "read")]_vars
    /\ [][(pc = "idle" /\ lastError' # lastError /\ lastError' # "") =>
            pc' = "idle"]_vars
    /\ [][pc = "check" =>
            IF RowEmpty \/ RowOutOfRange
            THEN /\ lastError' # ""
                 /\ pc' = "idle"
                 /\ processes' = processes
            ELSE /\ processes' = Append(processes,
                        NewProcess(Len(processes) + 1,
                                   ParseInt(arrivalTime), ParseInt(burstTime)))
                 /\ lastError' = lastError
                 /\ pc' = "read"]_vars
    /\ [][(pc = "read" /\ pc' = "sjf") =>
            (Len(processes) = Len(processInputs) /\ processes' = processes
                /\ lastError = "")]_vars

\* With the results of a simulation on display, a later "Run Simulation" has read
\* a valid first row and then stopped at a second row whose burst is 0: the error
\* is reported, and the timeline and the averages are those of the earlier run.
C20_Witness ==
    /\ pc = "idle"
    /\ lastError = "Invalid input values!"
    /\ resultsShown
    /\ TableReady
    /\ Len(processInputs) = 2
    /\ Len(processes) = 1
    /\ processes[1].remaining = processes[1].burst
    /\ ganttData # <<>>
    /\ ganttData[1].end - ganttData[1].start # processes[1].burst
    /\ avgTurnaround # <<>>

=============================================================================
